---------------------------- MODULE Spec2Model ----------------------------
(***************************************************************************)
(* Model of the browser-side notes widget (static/js/notes.js) and of the  *)
(* Q&A chat widget (static/js/qna.js).                                     *)
(*                                                                         *)
(* A JavaScript string is modelled as a sequence of one-character strings, *)
(* so that split, trim, the regular expressions and toLowerCase are        *)
(* computed character by character as the code computes them.              *)
(*                                                                         *)
(* Three state machines share the variables:                               *)
(*   Spec      the notes widget: panels, poll chains, timers, clicks       *)
(*   QnaSpec   the chat widget: transcript, controls, requests             *)
(*   ParseSpec parseStructuredNotes run line by line over bounded inputs   *)
(***************************************************************************)
EXTENDS Integers, Sequences, FiniteSets, TLC

VARIABLES
    \* ---- notes.js: module state of the DOMContentLoaded closure
    loadingState, contentPlaceholder, notesResult, errorState, \* style.display
    errorMessage,        \* errorMessage.textContent
    currentNotes, structuredNotes, retryCount,
    sectionsCount, totalKeyPoints,
    checkPending,        \* checkForExistingNotes invocations awaiting fetch
    checkTimers,         \* setTimeout(checkForExistingNotes) not yet fired
    genPending,          \* handleGenerateNotes invocations awaiting fetch
    genTimers,           \* setTimeout(handleGenerateNotes) not yet fired
    clicks,              \* user actions performed so far (bounded)
    genProcessing,       \* "processing" answers to handleGenerateNotes since
                         \* the last click that started it (saturating)
    checkProcessing,     \* "processing" answers to checkForExistingNotes
                         \* since page load (saturating)
    artifacts,           \* files saved, clipboard writes, print windows and
                         \* share calls so far
    copyPending,         \* clipboard.writeText promises not yet settled
    \* ---- qna.js: RoyalQnA instance
    messages, inputValue, inputDisabled, sendDisabled, typingIndicator,
    questionCount, statusPending, askPending, asked,
    \* ---- parseStructuredNotes, one forEach iteration per step
    notes, lines, pos, parser, result, pc,
    exported             \* the text formatNotesForDownload returned

notesVars == <<loadingState, contentPlaceholder, notesResult, errorState,
               errorMessage, currentNotes, structuredNotes, retryCount,
               sectionsCount, totalKeyPoints,
               checkPending, checkTimers, genPending, genTimers,
               clicks, genProcessing, checkProcessing,
               artifacts, copyPending>>
qnaVars == <<messages, inputValue, inputDisabled, sendDisabled,
             typingIndicator, questionCount, statusPending, askPending, asked>>
parseVars == <<notes, lines, pos, parser, result, pc, exported>>
vars == <<notesVars, qnaVars, parseVars>>

---------------------------------------------------------------------------
(* Bounds of the model *)

\* lines per generated input text of ParseSpec
MaxLines == 4
\* user actions on the notes widget in one behaviour
MaxClicks == 2
\* the history counters genProcessing, checkProcessing saturate here
MaxCount == 11
\* questions the user submits in one behaviour of QnaSpec
MaxQuestions == 2

\* notes.js:38
MAX_RETRIES == 10

---------------------------------------------------------------------------
(* Strings as character sequences *)

Min(S) == CHOOSE x \in S : \A y \in S : x <= y
Max(S) == CHOOSE x \in S : \A y \in S : x >= y

\* the characters \s matches, among those of the model's alphabet
IsSpace(c) == c \in {" ", "\t", "\n"}
IsDigit(c) == c \in {"0", "1", "2", "3", "4", "5", "6", "7", "8", "9"}

UpperChars == <<"A","B","C","D","E","F","G","H","I","J","K","L","M",
                "N","O","P","Q","R","S","T","U","V","W","X","Y","Z">>
LowerChars == <<"a","b","c","d","e","f","g","h","i","j","k","l","m",
                "n","o","p","q","r","s","t","u","v","w","x","y","z">>

LowerChar(c) ==
    IF \E i \in 1..26 : UpperChars[i] = c
    THEN LowerChars[CHOOSE i \in 1..26 : UpperChars[i] = c]
    ELSE c

\* String.prototype.toLowerCase
toLowerCase(s) == [i \in 1..Len(s) |-> LowerChar(s[i])]

\* String.prototype.includes
includes(s, sub) ==
    \E i \in 0..(Len(s) - Len(sub)) : SubSeq(s, i + 1, i + Len(sub)) = sub

\* String.prototype.trim
trim(s) ==
    LET idx == {i \in 1..Len(s) : ~IsSpace(s[i])}
    IN  IF idx = {} THEN <<>> ELSE SubSeq(s, Min(idx), Max(idx))

\* String.prototype.split(sep) for a one-character separator
RECURSIVE split(_, _)
split(s, sep) ==
    LET idx == {i \in 1..Len(s) : s[i] = sep}
    IN  IF idx = {} THEN <<s>>
        ELSE LET i == Min(idx)
             IN  <<SubSeq(s, 1, i - 1)>> \o split(SubSeq(s, i + 1, Len(s)), sep)

\* Array.prototype.join(sep)
RECURSIVE join(_, _)
join(ss, sep) ==
    IF ss = <<>> THEN <<>>
    ELSE IF Len(ss) = 1 THEN ss[1]
    ELSE ss[1] \o <<sep>> \o join(Tail(ss), sep)

\* index of the first character at or after i that \s does not match
SkipSpaces(s, i) ==
    LET rest == {j \in i..Len(s) : ~IsSpace(s[j])}
    IN  IF rest = {} THEN Len(s) + 1 ELSE Min(rest)

\* index of the first character that \d does not match
SkipDigits(s) ==
    LET rest == {j \in 1..Len(s) : ~IsDigit(s[j])}
    IN  IF rest = {} THEN Len(s) + 1 ELSE Min(rest)

\* line.match(/^#\s+.+/)
matchSection(line) ==
    Len(line) >= 3 /\ line[1] = "#" /\ IsSpace(line[2])
\* line.replace(/^#\s+/, '')
stripSection(line) == SubSeq(line, SkipSpaces(line, 2), Len(line))

\* line.match(/^##\s+.+/)
matchSubsection(line) ==
    Len(line) >= 4 /\ line[1] = "#" /\ line[2] = "#" /\ IsSpace(line[3])
\* line.replace(/^##\s+/, '')
stripSubsection(line) == SubSeq(line, SkipSpaces(line, 3), Len(line))

\* line.match(/^\d+\.\s+.+/)
matchNumbered(line) ==
    LET d == SkipDigits(line)
    IN  d >= 2 /\ Len(line) >= d + 2 /\ line[d] = "." /\ IsSpace(line[d + 1])
\* line.replace(/^\d+\.\s+/, '')
stripNumbered(line) ==
    SubSeq(line, SkipSpaces(line, SkipDigits(line) + 1), Len(line))

\* line.match(/^-\s+.+/)
matchBullet(line) ==
    Len(line) >= 3 /\ line[1] = "-" /\ IsSpace(line[2])
\* line.replace(/^-\s+/, '')
stripBullet(line) == SubSeq(line, SkipSpaces(line, 2), Len(line))

\* line.match(/^#/)
matchHash(line) == Len(line) >= 1 /\ line[1] = "#"
\* line.match(/^##/)
matchHashHash(line) == Len(line) >= 2 /\ line[1] = "#" /\ line[2] = "#"

KeyPointsNeedle == <<"k", "e", "y", " ", "p", "o", "i", "n", "t", "s">>
OverviewNeedle == <<"o", "v", "e", "r", "v", "i", "e", "w">>
KeyPointsTitle == <<"K", "e", "y", " ", "P", "o", "i", "n", "t", "s">>
ContentNotesTitle ==
    <<"C", "o", "n", "t", "e", "n", "t", " ", "N", "o", "t", "e", "s">>


---------------------------------------------------------------------------
(* parseStructuredNotes (notes.js:159-250)                                 *)
(*                                                                         *)
(* The locals of the function are the fields of one record.  null is the   *)
(* empty sequence: currentSection is <<>> or <<section>>.  In the code     *)
(* currentSubsection is a reference to the object last pushed onto         *)
(* currentSection.subsections; here it is that object's index, 0 for null. *)

NewSection(title) == [title |-> title, content |-> <<>>, subsections |-> <<>>]
NewSubsection(title) == [title |-> title, points |-> <<>>]

\* the locals as declared at notes.js:160-166
ParserInit ==
    [sections |-> <<>>, currentSection |-> <<>>, currentSubsection |-> 0,
     inKeyPoints |-> FALSE, keyPoints |-> <<>>]

\* notes.split('\n').filter(line => line.trim())
splitLines(text) == SelectSeq(split(text, "\n"), LAMBDA l : trim(l) # <<>>)

\* title.toLowerCase().includes('key points')
isKeyPointsTitle(title) == includes(toLowerCase(title), KeyPointsNeedle)

\* s.title.toLowerCase().includes('overview')
isOverviewTitle(title) == includes(toLowerCase(title), OverviewNeedle)

\* a "# title" branch that forgets the open Section instead of pushing it
onSectionHeader_DropOpen(st, line) ==
    [st EXCEPT
       !.currentSection = <<NewSection(stripSection(line))>>,
       !.currentSubsection = 0,
       !.inKeyPoints = FALSE]

\* a "# title" branch that leaves the key-points flag alone
onSectionHeader_KeepMode(st, line) ==
    [st EXCEPT
       !.sections = IF st.currentSection # <<>>
                    THEN Append(@, st.currentSection[1]) ELSE @,
       !.currentSection = <<NewSection(stripSection(line))>>,
       !.currentSubsection = 0]

\* branch 1: a "# title" line
onSectionHeader(st, line) ==
    [st EXCEPT
       !.sections = IF st.currentSection # <<>>
                    THEN Append(@, st.currentSection[1]) ELSE @,
       !.currentSection = <<NewSection(stripSection(line))>>,
       !.currentSubsection = 0,
       !.inKeyPoints = FALSE]

\* a "## title" branch that does nothing at all without an open Section
onSubsectionHeader_Guarded(st, line) ==
    LET title == stripSubsection(line)
        kp == isKeyPointsTitle(title)
    IN  IF st.currentSection # <<>>
        THEN [st EXCEPT
                !.inKeyPoints = kp,
                !.keyPoints = IF kp THEN <<>> ELSE @,
                !.currentSection[1].subsections = Append(@, NewSubsection(title)),
                !.currentSubsection = Len(st.currentSection[1].subsections) + 1]
        ELSE st

\* branch 2: a "## title" line
onSubsectionHeader(st, line) ==
    LET title == stripSubsection(line)
        kp == isKeyPointsTitle(title)
        st1 == [st EXCEPT !.inKeyPoints = kp,
                          !.keyPoints = IF kp THEN <<>> ELSE @]
    IN  IF st.currentSection # <<>>
        THEN [st1 EXCEPT
                !.currentSection[1].subsections = Append(@, NewSubsection(title)),
                !.currentSubsection = Len(st.currentSection[1].subsections) + 1]
        ELSE st1

\* a numbered branch that also fills the open Subsection
onKeyPoint_AlsoSubsection(st, line) ==
    LET st1 == [st EXCEPT !.keyPoints = Append(@, stripNumbered(line))]
    IN  IF st.currentSubsection # 0
        THEN [st1 EXCEPT
                !.currentSection[1].subsections[st.currentSubsection].points
                    = Append(@, stripNumbered(line))]
        ELSE st1

\* branch 3: a numbered line while inKeyPoints
onKeyPoint(st, line) ==
    [st EXCEPT !.keyPoints = Append(@, stripNumbered(line))]

\* a bullet branch that does not look at the open Subsection
onBullet_ToSection(st, line) ==
    IF st.currentSection # <<>>
    THEN [st EXCEPT !.currentSection[1].content = Append(@, stripBullet(line))]
    ELSE st

\* branch 4: a bullet line
onBullet(st, line) ==
    LET point == stripBullet(line)
    IN  IF st.currentSubsection # 0
        THEN [st EXCEPT !.currentSection[1].subsections[st.currentSubsection].points
                            = Append(@, point)]
        ELSE IF st.currentSection # <<>>
        THEN [st EXCEPT !.currentSection[1].content = Append(@, point)]
        ELSE st

\* a content branch without the length test
onContent_NoFilter(st, line) ==
    IF st.currentSection # <<>>
    THEN [st EXCEPT !.currentSection[1].content = Append(@, line)]
    ELSE st

\* a content branch that strips the numeral of a numbered line
onContent_Unnumbered(st, line) ==
    IF st.currentSection # <<>> /\ Len(line) > 5
    THEN [st EXCEPT !.currentSection[1].content
                        = Append(@, IF matchNumbered(line)
                                    THEN stripNumbered(line) ELSE line)]
    ELSE st

\* branch 5: any other line
onContent(st, line) ==
    IF st.currentSection # <<>> /\ Len(line) > 5
    THEN [st EXCEPT !.currentSection[1].content = Append(@, line)]
    ELSE st

\* the body of lines.forEach (notes.js:168-226)
processLine(st, rawLine) ==
    LET line == trim(rawLine)
    IN  IF matchSection(line) THEN onSectionHeader(st, line)
        ELSE IF matchSubsection(line) THEN onSubsectionHeader(st, line)
        ELSE IF matchNumbered(line) /\ st.inKeyPoints THEN onKeyPoint(st, line)
        ELSE IF matchBullet(line) THEN onBullet(st, line)
        ELSE IF Len(line) > 0 /\ ~matchHash(line) /\ ~matchHashHash(line)
        THEN onContent(st, line)
        ELSE st

RECURSIVE forEachLine(_, _)
forEachLine(st, ls) ==
    IF ls = <<>> THEN st ELSE forEachLine(processLine(st, ls[1]), Tail(ls))

\* a fallback that trims the text it is given
createFallbackStructure_Trimmed(text) ==
    <<[title |-> ContentNotesTitle, content |-> <<trim(text)>>,
       subsections |-> <<>>]>>

\* notes.js:252-259
createFallbackStructure(text) ==
    <<[title |-> ContentNotesTitle, content |-> <<text>>, subsections |-> <<>>]>>

\* "Add the last section" (notes.js:228-231)
pushLast(st) ==
    IF st.currentSection # <<>>
    THEN Append(st.sections, st.currentSection[1]) ELSE st.sections

\* sections.findIndex(s => s.title.toLowerCase().includes('overview')),
\* 0-based, -1 when there is none
overviewIndex(secs) ==
    LET hits == {i \in 1..Len(secs) : isOverviewTitle(secs[i].title)}
    IN  IF hits = {} THEN -1 ELSE Min(hits) - 1

\* sections.splice(at, 0, item), at 0-based and clamped to the length
splice(secs, at, item) ==
    LET a == IF at > Len(secs) THEN Len(secs) ELSE at
    IN  SubSeq(secs, 1, a) \o <<item>> \o SubSeq(secs, a + 1, Len(secs))

\* an insertion "at the beginning" when there is no overview
keyPointsIndex_Beginning(secs) ==
    IF overviewIndex(secs) # -1 THEN overviewIndex(secs) + 1 ELSE 0

\* the index handed to splice (notes.js:241-246)
keyPointsIndex(secs) ==
    IF overviewIndex(secs) # -1 THEN overviewIndex(secs) + 1 ELSE 1

\* a post-pass that does not ask for a parsed Section
insertKeyPoints_NoGuard(secs, keyPts) ==
    IF Len(keyPts) > 0
    THEN splice(secs, keyPointsIndex(secs),
                [title |-> KeyPointsTitle, points |-> keyPts,
                 subsections |-> <<>>])
    ELSE secs

\* the key-points post-pass (notes.js:233-247)
insertKeyPoints(secs, keyPts) ==
    IF Len(keyPts) > 0 /\ Len(secs) > 0
    THEN splice(secs, keyPointsIndex(secs),
                [title |-> KeyPointsTitle, points |-> keyPts,
                 subsections |-> <<>>])
    ELSE secs

\* a return statement without the fallback
orFallback_Never(secs, text) == secs

\* the return statement (notes.js:249)
orFallback(secs, text) ==
    IF Len(secs) > 0 THEN secs ELSE createFallbackStructure(text)

\* everything after the forEach (notes.js:228-249)
finishParse(st, text) ==
    orFallback(insertKeyPoints(pushLast(st), st.keyPoints), text)

parseStructuredNotes(text) ==
    finishParse(forEachLine(ParserInit, splitLines(text)), text)

---------------------------------------------------------------------------
(* ParseSpec: parseStructuredNotes over every text of at most MaxLines     *)
(* lines drawn from LineVocab, one forEach iteration per step.             *)

LineVocab ==
    { <<"#", " ", "O", "v", "e", "r", "v", "i", "e", "w">>,
      <<" ", "#", " ", "P", "a", "d">>,
      <<"#", "#", " ", "K", "e", "y", " ", "P", "o", "i", "n", "t", "s">>,
      <<"#", "#", " ", "T", "o", "p", "i", "c", "s">>,
      <<"1", ".", " ", "F", "i", "r", "s", "t">>,
      <<"2", ".", " ", "b">>,
      <<"-", " ", "i", "t">>,
      <<"S", "o", "m", "e", " ", "i", "n", "t", "r", "o">>,
      <<"#", "T", "a", "g", "g", "e", "d">>,
      <<>> }

Inputs ==
    { join(ls, "\n") : ls \in UNION { [1..n -> LineVocab] : n \in 0..MaxLines } }

ParseIdle ==
    /\ notes = <<>> /\ lines = <<>> /\ pos = 0
    /\ parser = ParserInit /\ result = <<>> /\ pc = "idle"
    /\ exported = <<>>

\* entry of parseStructuredNotes: notes.js:160-166
ParseCall ==
    /\ pc = "call"
    /\ lines' = splitLines(notes)
    /\ pos' = 1
    /\ parser' = ParserInit
    /\ pc' = "forEach"
    /\ UNCHANGED <<notes, result, exported>>
    /\ UNCHANGED <<notesVars, qnaVars>>

\* one iteration of lines.forEach: notes.js:168-226
ParseLine ==
    /\ pc = "forEach"
    /\ pos <= Len(lines)
    /\ parser' = processLine(parser, lines[pos])
    /\ pos' = pos + 1
    /\ UNCHANGED <<notes, lines, result, pc, exported>>
    /\ UNCHANGED <<notesVars, qnaVars>>

\* after the loop, up to the return: notes.js:228-249
ParseReturn ==
    /\ pc = "forEach"
    /\ pos > Len(lines)
    /\ result' = finishParse(parser, notes)
    /\ pc' = "done"
    /\ UNCHANGED <<notes, lines, pos, parser, exported>>
    /\ UNCHANGED <<notesVars, qnaVars>>

---------------------------------------------------------------------------
(* formatNotesForDownload (notes.js:401-437).  A character outside ASCII   *)
(* is named by its code point.                                             *)

DigitChars == <<"0", "1", "2", "3", "4", "5", "6", "7", "8", "9">>

\* ${n} in a template literal: the decimal digits of n
RECURSIVE numberToString(_)
numberToString(n) ==
    IF n < 10 THEN <<DigitChars[n + 1]>>
    ELSE numberToString(n \div 10) \o <<DigitChars[(n % 10) + 1]>>

\* c.repeat(n)
repeat(c, n) == [i \in 1..n |-> c]

VideoNotesHeader == <<"V", "I", "D", "E", "O", " ", "N", "O", "T", "E", "S">>
KeyPointsLabel == <<"K", "e", "y", " ", "P", "o", "i", "n", "t", "s", ":">>

\* the three characters before ${point} at notes.js:427
BulletText == <<"U+00E2", "U+20AC", "U+00A2">>

\* section.content.forEach (notes.js:409-411)
RECURSIVE formatParagraphs(_)
formatParagraphs(paragraphs) ==
    IF paragraphs = <<>> THEN <<>>
    ELSE paragraphs[1] \o <<"\n", "\n">> \o formatParagraphs(Tail(paragraphs))

\* section.points.forEach (notes.js:416-418), pointIndex 0-based
RECURSIVE formatPoints(_, _)
formatPoints(points, pointIndex) ==
    IF points = <<>> THEN <<>>
    ELSE <<" ", " ">> \o numberToString(pointIndex + 1) \o <<".", " ">>
           \o points[1] \o <<"\n">>
           \o formatPoints(Tail(points), pointIndex + 1)

\* subsection.points.forEach (notes.js:426-428)
RECURSIVE formatBullets(_)
formatBullets(points) ==
    IF points = <<>> THEN <<>>
    ELSE repeat(" ", 6) \o BulletText \o <<" ">> \o points[1] \o <<"\n">>
           \o formatBullets(Tail(points))

\* section.subsections.forEach (notes.js:422-431), subIndex 0-based
RECURSIVE formatSubsections(_, _)
formatSubsections(subsections, subIndex) ==
    IF subsections = <<>> THEN <<>>
    ELSE repeat(" ", 3) \o numberToString(subIndex + 1) \o <<".", " ">>
           \o subsections[1].title \o <<"\n">>
           \o formatBullets(subsections[1].points)
           \o <<"\n">>
           \o formatSubsections(Tail(subsections), subIndex + 1)

\* the body of sections.forEach (notes.js:405-433), index 0-based
formatSection(section, index) ==
    numberToString(index + 1) \o <<".", " ">> \o section.title \o <<"\n">>
      \o repeat("=", Len(section.title) + 4) \o <<"\n", "\n">>
      \o (IF "content" \in DOMAIN section
          THEN formatParagraphs(section.content) ELSE <<>>)
      \o (IF "points" \in DOMAIN section
          THEN KeyPointsLabel \o <<"\n">> \o formatPoints(section.points, 0)
                 \o <<"\n">>
          ELSE <<>>)
      \o formatSubsections(section.subsections, 0)
      \o <<"\n">>

\* sections.forEach (notes.js:404-434)
RECURSIVE formatSections(_, _)
formatSections(sections, index) ==
    IF sections = <<>> THEN <<>>
    ELSE formatSection(sections[1], index)
           \o formatSections(Tail(sections), index + 1)

formatNotesForDownload(sections) ==
    VideoNotesHeader \o <<"\n", "\n">> \o formatSections(sections, 0)

\* formatNotesForDownload on the tree parseStructuredNotes returned
\* (as handleDownload calls it on structuredNotes, notes.js:385)
FormatResult ==
    /\ pc = "done"
    /\ exported' = formatNotesForDownload(result)
    /\ pc' = "formatted"
    /\ UNCHANGED <<notes, lines, pos, parser, result>>
    /\ UNCHANGED <<notesVars, qnaVars>>

---------------------------------------------------------------------------
(* The notes widget (notes.js).  A handler is a function from the widget   *)
(* state to the widget state, so that the calls it makes compose in the    *)
(* order of the code; an action applies one handler run up to its next     *)
(* await or to its end.  The progress bar, the word count, the processing  *)
(* time and the toasts are written by the handlers and read by none of     *)
(* them; they are left out.                                                *)

\* the widget state as one record
W ==
    [loadingState |-> loadingState, contentPlaceholder |-> contentPlaceholder,
     notesResult |-> notesResult, errorState |-> errorState,
     errorMessage |-> errorMessage, currentNotes |-> currentNotes,
     structuredNotes |-> structuredNotes, retryCount |-> retryCount,
     sectionsCount |-> sectionsCount, totalKeyPoints |-> totalKeyPoints,
     checkPending |-> checkPending, checkTimers |-> checkTimers,
     genPending |-> genPending, genTimers |-> genTimers]

\* the next widget state is w
Apply(w) ==
    /\ loadingState' = w.loadingState
    /\ contentPlaceholder' = w.contentPlaceholder
    /\ notesResult' = w.notesResult
    /\ errorState' = w.errorState
    /\ errorMessage' = w.errorMessage
    /\ currentNotes' = w.currentNotes
    /\ structuredNotes' = w.structuredNotes
    /\ retryCount' = w.retryCount
    /\ sectionsCount' = w.sectionsCount
    /\ totalKeyPoints' = w.totalKeyPoints
    /\ checkPending' = w.checkPending
    /\ checkTimers' = w.checkTimers
    /\ genPending' = w.genPending
    /\ genTimers' = w.genTimers

\* notes.js:573-580
showLoadingState(w) ==
    [w EXCEPT !.loadingState = "block", !.contentPlaceholder = "none",
              !.notesResult = "none", !.errorState = "none"]

\* notes.js:582-586
hideLoadingState(w) ==
    [w EXCEPT !.loadingState = "none", !.retryCount = 0]

\* notes.js:588-610
showProcessingState(w) ==
    [w EXCEPT !.loadingState = "block", !.contentPlaceholder = "none",
              !.notesResult = "none", !.errorState = "none"]

\* notes.js:612-618
showPlaceholderState(w) ==
    [w EXCEPT !.contentPlaceholder = "block", !.notesResult = "none",
              !.loadingState = "none", !.errorState = "none",
              !.retryCount = 0]

\* notes.js:620-627
showError(w, message) ==
    [w EXCEPT !.errorMessage = message, !.errorState = "block",
              !.contentPlaceholder = "none", !.notesResult = "none",
              !.loadingState = "none", !.retryCount = 0]

\* notes.js:629-631
hideErrorState(w) == [w EXCEPT !.errorState = "none"]

\* a clear that forgets the tree
clearPreviousNotes_KeepTree(w) ==
    [w EXCEPT !.currentNotes = <<>>,
              !.notesResult = "none", !.contentPlaceholder = "block",
              !.retryCount = 0]

\* notes.js:539-546
clearPreviousNotes(w) ==
    [w EXCEPT !.currentNotes = <<>>, !.structuredNotes = <<>>,
              !.notesResult = "none", !.contentPlaceholder = "block",
              !.retryCount = 0]

RECURSIVE SumLens(_)
SumLens(ss) == IF ss = <<>> THEN 0 ELSE Len(ss[1].points) + SumLens(Tail(ss))

\* a count that looks only at the subsections
sectionPoints_SubsectionsOnly(section) == SumLens(section.subsections)

\* the points one section contributes: notes.js:349-362
sectionPoints(section) ==
    (IF "points" \in DOMAIN section THEN Len(section.points) ELSE 0)
    + SumLens(section.subsections)

RECURSIVE countPoints(_)
countPoints(secs) ==
    IF secs = <<>> THEN 0 ELSE sectionPoints(secs[1]) + countPoints(Tail(secs))

\* notes.js:345-368
updateDetailedStats(w, secs) ==
    [w EXCEPT !.totalKeyPoints = countPoints(secs), !.sectionsCount = Len(secs)]

\* a display step that parses only when no tree is held
processAndDisplayNotes_KeepOldTree(w, text) ==
    LET w1 == [w EXCEPT !.contentPlaceholder = "none", !.notesResult = "block",
                        !.structuredNotes = IF @ = <<>>
                                            THEN parseStructuredNotes(text)
                                            ELSE @]
    IN  updateDetailedStats(w1, w1.structuredNotes)

\* notes.js:144-157
processAndDisplayNotes(w, text) ==
    LET w1 == [w EXCEPT !.contentPlaceholder = "none", !.notesResult = "block",
                        !.structuredNotes = parseStructuredNotes(text)]
    IN  updateDetailedStats(w1, w1.structuredNotes)

\* fetch('/generate_notes') issued from handleGenerateNotes / from
\* checkForExistingNotes: the invocation is suspended at its await
fetchFromGenerate(w) == [w EXCEPT !.genPending = @ + 1]
fetchFromCheck(w) == [w EXCEPT !.checkPending = @ + 1]

\* setTimeout(handleGenerateNotes, RETRY_DELAY): notes.js:130
scheduleGenerate(w) == [w EXCEPT !.genTimers = @ + 1]
\* setTimeout(checkForExistingNotes, RETRY_DELAY): notes.js:87
scheduleCheck(w) == [w EXCEPT !.checkTimers = @ + 1]

TooLongMessage == <<"Video processing is taking too long. Please try again later.">>
FailedPrefix == "Failed to generate notes: "
DefaultFailure == "Notes generation failed"

\* a message that ignores the payload's error field
failureMessage_MessageOnly(data) ==
    IF data.message # "" THEN data.message ELSE DefaultFailure

\* data.message || data.error || 'Notes generation failed': notes.js:135
failureMessage(data) ==
    IF data.message # "" THEN data.message
    ELSE IF data.error # "" THEN data.error
    ELSE DefaultFailure

\* handleGenerateNotes up to its await fetch: notes.js:97-108
generateStart(w) ==
    fetchFromGenerate([showLoadingState(w) EXCEPT !.retryCount = 0])

\* the retry decision: notes.js:128-133
retryOrGiveUp(w) ==
    LET w1 == [w EXCEPT !.retryCount = @ + 1]
    IN  IF w1.retryCount < MAX_RETRIES
        THEN scheduleGenerate(w1)
        ELSE showError(w1, TooLongMessage)

\* handleGenerateNotes from the response on: notes.js:110-141
generateResume(w, data) ==
    IF ~data.ok
    THEN showError(w, <<FailedPrefix, data.message>>)
    ELSE IF data.status = "success" /\ data.notes # <<>>
    THEN hideLoadingState(
           processAndDisplayNotes([w EXCEPT !.currentNotes = data.notes],
                                  data.notes))
    ELSE IF data.status = "processing"
    THEN retryOrGiveUp(showProcessingState(w))
    ELSE showError(w, <<FailedPrefix, failureMessage(data)>>)

\* checkForExistingNotes from the response on: notes.js:74-94
checkResume(w, data) ==
    IF ~data.ok
    THEN showPlaceholderState(w)
    ELSE IF data.status = "success" /\ data.notes # <<>>
    THEN hideLoadingState(
           processAndDisplayNotes([w EXCEPT !.currentNotes = data.notes],
                                  data.notes))
    ELSE IF data.status = "processing"
    THEN scheduleCheck(showProcessingState(w))
    ELSE showPlaceholderState(w)

\* notes.js:533-537
handleRetry(w) ==
    generateStart([hideErrorState(w) EXCEPT !.retryCount = 0])

\* notes.js:521-531; confirmed is the answer to confirm()
handleRefresh(w, confirmed) ==
    IF w.currentNotes = <<>> THEN generateStart(w)
    ELSE IF confirmed THEN generateStart(clearPreviousNotes(w))
    ELSE w

---------------------------------------------------------------------------
(* The backend's answers to POST /generate_notes.  ok = FALSE is a fetch   *)
(* that rejects or a body that is not JSON; "" is an absent field.         *)

NotesTexts ==
    { <<"#", " ", "O", "v", "e", "r", "v", "i", "e", "w", "\n",
        "S", "o", "m", "e", " ", "i", "n", "t", "r", "o", "\n",
        "#", "#", " ", "K", "e", "y", " ", "P", "o", "i", "n", "t", "s", "\n",
        "1", ".", " ", "F", "i", "r", "s", "t", "\n",
        "2", ".", " ", "S", "e", "c", "o", "n", "d", "\n",
        "#", "#", " ", "T", "o", "p", "i", "c", "s", "\n",
        "-", " ", "c", "\n",
        "#", " ", "D", "e", "t", "a", "i", "l", "s", "\n",
        "-", " ", "a", " ", "d", "e", "t", "a", "i", "l">>,
      <<"p", "l", "a", "i", "n", " ", "t", "e", "x", "t">> }

Responses ==
    { [ok |-> FALSE, status |-> "", notes |-> <<>>,
       message |-> "Failed to fetch", error |-> ""] }
    \cup { [ok |-> TRUE, status |-> "success", notes |-> t,
            message |-> "", error |-> ""] : t \in NotesTexts \cup {<<>>} }
    \cup { [ok |-> TRUE, status |-> "processing", notes |-> <<>>,
            message |-> "Video is still processing", error |-> ""] }
    \cup { [ok |-> TRUE, status |-> "error", notes |-> <<>>,
            message |-> m[1], error |-> m[2]] :
              m \in { <<"No video processed", "">>, <<"", "Backend failure">>,
                      <<"", "">> } }

IsProcessing(data) == data.ok /\ data.status = "processing"

Saturate(n) == IF n < MaxCount THEN n + 1 ELSE MaxCount

\* a (re)start of a click chain resets the history counter
ChainStarted(w) == w.genPending > genPending

\* generateBtn / generatePlaceholderBtn "click": notes.js:53,59
ClickGenerate ==
    /\ clicks < MaxClicks
    /\ Apply(generateStart(W))
    /\ clicks' = clicks + 1
    /\ genProcessing' = 0
    /\ UNCHANGED checkProcessing
    /\ UNCHANGED <<artifacts, copyPending>>
    /\ UNCHANGED <<qnaVars, parseVars>>

\* retryBtn "click": notes.js:58
ClickRetry ==
    /\ clicks < MaxClicks
    /\ Apply(handleRetry(W))
    /\ clicks' = clicks + 1
    /\ genProcessing' = 0
    /\ UNCHANGED checkProcessing
    /\ UNCHANGED <<artifacts, copyPending>>
    /\ UNCHANGED <<qnaVars, parseVars>>

\* handleRefresh runs with this answer to confirm()
Refresh(confirmed) ==
    /\ clicks < MaxClicks
    /\ LET w == handleRefresh(W, confirmed)
       IN  /\ Apply(w)
           /\ genProcessing' = IF ChainStarted(w) THEN 0 ELSE genProcessing
    /\ clicks' = clicks + 1
    /\ UNCHANGED checkProcessing
    /\ UNCHANGED <<artifacts, copyPending>>
    /\ UNCHANGED <<qnaVars, parseVars>>

\* refreshBtn "click": notes.js:57
ClickRefresh == \E confirmed \in BOOLEAN : Refresh(confirmed)

\* the timer of notes.js:130 fires: handleGenerateNotes runs to its fetch
GenTimerFire ==
    /\ genTimers > 0
    /\ Apply(generateStart([W EXCEPT !.genTimers = @ - 1]))
    /\ UNCHANGED <<clicks, genProcessing, checkProcessing>>
    /\ UNCHANGED <<artifacts, copyPending>>
    /\ UNCHANGED <<qnaVars, parseVars>>

\* a fetch of handleGenerateNotes settles: the handler runs to its end
GenDelivers(data) ==
    /\ genPending > 0
    /\ Apply(generateResume([W EXCEPT !.genPending = @ - 1], data))
    /\ genProcessing' = IF IsProcessing(data)
                        THEN Saturate(genProcessing) ELSE genProcessing
    /\ UNCHANGED <<clicks, checkProcessing>>
    /\ UNCHANGED <<artifacts, copyPending>>
    /\ UNCHANGED <<qnaVars, parseVars>>

GenResponse == \E data \in Responses : GenDelivers(data)

\* the timer of notes.js:87 fires: checkForExistingNotes runs to its fetch
CheckTimerFire ==
    /\ checkTimers > 0
    /\ Apply(fetchFromCheck([W EXCEPT !.checkTimers = @ - 1]))
    /\ UNCHANGED <<clicks, genProcessing, checkProcessing>>
    /\ UNCHANGED <<artifacts, copyPending>>
    /\ UNCHANGED <<qnaVars, parseVars>>

\* the fetch of checkForExistingNotes settles: the function runs to its end
CheckDelivers(data) ==
    /\ checkPending > 0
    /\ Apply(checkResume([W EXCEPT !.checkPending = @ - 1], data))
    /\ checkProcessing' = IF IsProcessing(data)
                          THEN Saturate(checkProcessing)
                          ELSE checkProcessing
    /\ UNCHANGED <<clicks, genProcessing>>
    /\ UNCHANGED <<artifacts, copyPending>>
    /\ UNCHANGED <<qnaVars, parseVars>>

CheckResponse == \E data \in Responses : CheckDelivers(data)

\* a guard that returns without showing an error
exportGuard_Silent(w, message) == w

\* the guard the export handlers open with: notes.js:380-383, 440-443,
\* 455-458, 501-504
exportGuard(w, message) ==
    IF w.currentNotes = <<>> THEN showError(w, <<message>>) ELSE w

\* notes.js:379-399
handleDownload(w) == exportGuard(w, "No notes available to download")

\* handleCopy up to the promise of writeText: notes.js:439-447
handleCopy(w) == exportGuard(w, "No notes available to copy")

\* the .then / .catch of handleCopy: notes.js:447-451
copySettled(w, written) ==
    IF written THEN w ELSE showError(w, <<"Failed to copy notes">>)

\* notes.js:454-493
handlePrint(w) == exportGuard(w, "No notes available to print")

\* notes.js:495-498
handleExportPdf(w) == w

\* notes.js:500-519
handleShareNotes(w) == exportGuard(w, "No notes available to share")

\* downloadBtn "click" (notes.js:54): the formatted tree is saved as a file
ClickDownload ==
    /\ clicks < MaxClicks
    /\ Apply(handleDownload(W))
    /\ IF currentNotes # <<>>
       THEN /\ exported' = formatNotesForDownload(structuredNotes)
            /\ artifacts' = artifacts + 1
       ELSE UNCHANGED <<exported, artifacts>>
    /\ clicks' = clicks + 1
    /\ UNCHANGED <<genProcessing, checkProcessing, copyPending>>
    /\ UNCHANGED <<notes, lines, pos, parser, result, pc>>
    /\ UNCHANGED qnaVars

\* copyBtn "click" (notes.js:55): the formatted tree is handed to
\* clipboard.writeText
ClickCopy ==
    /\ clicks < MaxClicks
    /\ Apply(handleCopy(W))
    /\ IF currentNotes # <<>>
       THEN /\ exported' = formatNotesForDownload(structuredNotes)
            /\ copyPending' = copyPending + 1
       ELSE UNCHANGED <<exported, copyPending>>
    /\ clicks' = clicks + 1
    /\ UNCHANGED <<genProcessing, checkProcessing, artifacts>>
    /\ UNCHANGED <<notes, lines, pos, parser, result, pc>>
    /\ UNCHANGED qnaVars

\* the promise of writeText settles: written, or rejected
CopySettles(written) ==
    /\ copyPending > 0
    /\ Apply(copySettled(W, written))
    /\ copyPending' = copyPending - 1
    /\ artifacts' = IF written THEN artifacts + 1 ELSE artifacts
    /\ UNCHANGED <<clicks, genProcessing, checkProcessing>>
    /\ UNCHANGED <<qnaVars, parseVars>>

CopyResponse == \E written \in BOOLEAN : CopySettles(written)

\* handlePrint runs; opened = FALSE is a window.open that returns null, on
\* which the handler throws before it writes anything
PrintOpens(opened) ==
    /\ clicks < MaxClicks
    /\ Apply(handlePrint(W))
    /\ artifacts' = IF currentNotes # <<>> /\ opened
                    THEN artifacts + 1 ELSE artifacts
    /\ clicks' = clicks + 1
    /\ UNCHANGED <<genProcessing, checkProcessing, copyPending>>
    /\ UNCHANGED <<qnaVars, parseVars>>

\* printBtn "click": notes.js:56
ClickPrint == \E opened \in BOOLEAN : PrintOpens(opened)

\* exportPdfBtn "click" (notes.js:60): a toast and nothing else
ClickExportPdf ==
    /\ clicks < MaxClicks
    /\ Apply(handleExportPdf(W))
    /\ clicks' = clicks + 1
    /\ UNCHANGED <<genProcessing, checkProcessing, artifacts, copyPending>>
    /\ UNCHANGED <<qnaVars, parseVars>>

\* handleShareNotes runs; supported is whether navigator.share exists
Share(supported) ==
    /\ clicks < MaxClicks
    /\ Apply(handleShareNotes(W))
    /\ artifacts' = IF currentNotes # <<>> /\ supported
                    THEN artifacts + 1 ELSE artifacts
    /\ clicks' = clicks + 1
    /\ UNCHANGED <<genProcessing, checkProcessing, copyPending>>
    /\ UNCHANGED <<qnaVars, parseVars>>

\* shareNotesBtn "click": notes.js:61
ClickShare == \E supported \in BOOLEAN : Share(supported)

---------------------------------------------------------------------------
(* The chat widget (qna.js, class RoyalQnA).  The transcript is the list   *)
(* of elements appended to messagesContainer.  A confidence is a number    *)
(* of hundredths; <<>> is an absent (undefined) field.                     *)

\* the instance and its DOM elements as one record
Q ==
    [messages |-> messages, inputValue |-> inputValue,
     inputDisabled |-> inputDisabled, sendDisabled |-> sendDisabled,
     typingIndicator |-> typingIndicator, questionCount |-> questionCount,
     statusPending |-> statusPending, askPending |-> askPending]

\* the next widget state is q
ApplyQ(q) ==
    /\ messages' = q.messages
    /\ inputValue' = q.inputValue
    /\ inputDisabled' = q.inputDisabled
    /\ sendDisabled' = q.sendDisabled
    /\ typingIndicator' = q.typingIndicator
    /\ questionCount' = q.questionCount
    /\ statusPending' = q.statusPending
    /\ askPending' = q.askPending

\* a badge whose upper tier starts at 0.7
confidenceBadge_Inclusive(message) ==
    IF message.confidence # <<>> /\ message.confidence[1] >= 70 THEN "high"
    ELSE IF message.confidence # <<>> /\ message.confidence[1] > 0
    THEN "general"
    ELSE ""

\* the badge of createMessageElement: qna.js:183-192
confidenceBadge(message) ==
    IF message.confidence # <<>> /\ message.confidence[1] > 70 THEN "high"
    ELSE IF message.confidence # <<>> /\ message.confidence[1] > 0
    THEN "general"
    ELSE ""

\* qna.js:179-209
createMessageElement(message) ==
    [type |-> message.type, sender |-> message.sender,
     content |-> message.content, badge |-> confidenceBadge(message)]

\* qna.js:151-158
addMessage(q, message) ==
    [q EXCEPT !.messages = Append(@, createMessageElement(message))]

\* qna.js:69-87
showWelcomeMessage(q) ==
    addMessage(q, [sender |-> "AI Assistant", content |-> <<"welcome">>,
                   type |-> "ai", confidence |-> <<>>])

\* qna.js:26-42
showNotReadyMessage(q) ==
    addMessage(q, [sender |-> "System", content |-> <<"not ready">>,
                   type |-> "ai", confidence |-> <<>>])

\* qna.js:220-229
qnaShowError(q, message) ==
    addMessage(q, [sender |-> "System", content |-> <<"error", message>>,
                   type |-> "ai", confidence |-> <<>>])

\* qna.js:231-234
clearInput(q) == [q EXCEPT !.inputValue = <<>>]

\* qna.js:211-214
showTypingIndicator(q) == [q EXCEPT !.typingIndicator = "block"]

\* qna.js:216-218
hideTypingIndicator(q) == [q EXCEPT !.typingIndicator = "none"]

\* a disableInput that forgets the textarea
disableInput_SendOnly(q) == [q EXCEPT !.sendDisabled = TRUE]

\* qna.js:236-239
disableInput(q) == [q EXCEPT !.inputDisabled = TRUE, !.sendDisabled = TRUE]

\* qna.js:241-245
enableInput(q) == [q EXCEPT !.inputDisabled = FALSE, !.sendDisabled = FALSE]

\* getAIResponse up to its await fetch: qna.js:135-142
getAIResponse(q) == [q EXCEPT !.askPending = @ + 1]

\* a sendMessage without the early return on an empty question
sendMessage_Unguarded(q) ==
    getAIResponse(
      disableInput(
        showTypingIndicator(
          clearInput(
            addMessage(q, [sender |-> "You", content |-> trim(q.inputValue),
                           type |-> "user", confidence |-> <<>>])))))

\* sendMessage up to its await: qna.js:101-122
sendMessage(q) ==
    LET question == trim(q.inputValue)
    IN  IF question = <<>> THEN q
        ELSE getAIResponse(
               disableInput(
                 showTypingIndicator(
                   clearInput(
                     addMessage(q, [sender |-> "You", content |-> question,
                                    type |-> "user", confidence |-> <<>>])))))

\* response.answer || 'Sorry, I encountered an error.': qna.js:175
errorAnswer(response) ==
    IF response.answer # "" THEN response.answer
    ELSE "Sorry, I encountered an error."

\* a reply step that counts error payloads too
addAIReply_CountAll(q, response) ==
    IF response.status = "success"
    THEN addMessage([q EXCEPT !.questionCount = @ + 1],
                    [sender |-> "AI Assistant", content |-> <<response.answer>>,
                     type |-> "ai", confidence |-> response.confidence])
    ELSE qnaShowError([q EXCEPT !.questionCount = @ + 1],
                      errorAnswer(response))

\* qna.js:160-177
addAIReply(q, response) ==
    IF response.status = "success"
    THEN addMessage([q EXCEPT !.questionCount = @ + 1],
                    [sender |-> "AI Assistant", content |-> <<response.answer>>,
                     type |-> "ai", confidence |-> response.confidence])
    ELSE qnaShowError(q, errorAnswer(response))

\* a catch block that only hides the typing indicator
replyOrError_SilentCatch(q, response) ==
    IF response.ok
    THEN addAIReply(hideTypingIndicator(q), response)
    ELSE hideTypingIndicator(q)

\* the try and the catch of sendMessage after the await: qna.js:122-130.
\* getAIResponse throws when fetch rejects, when the status is not OK and
\* when the body is not JSON (qna.js:144-148)
replyOrError(q, response) ==
    IF response.ok
    THEN addAIReply(hideTypingIndicator(q), response)
    ELSE qnaShowError(hideTypingIndicator(q),
                      "Failed to get response. Please try again.")

\* a sendMessage whose enableInput sits inside the try block
sendResume_EnableInTry(q, response) ==
    IF response.ok /\ response.status = "success"
    THEN enableInput(replyOrError(q, response))
    ELSE replyOrError(q, response)

\* sendMessage from the settled request on: qna.js:122-132
sendResume(q, response) == enableInput(replyOrError(q, response))

\* init after checkSystemStatus: qna.js:17-24; a failed status request
\* yields {ready: false} (qna.js:95-98)
initResume(q, ready) ==
    IF ready THEN showWelcomeMessage(q) ELSE showNotReadyMessage(q)

\* what the user may have typed into the textarea
InputTexts ==
    { <<>>, <<" ">>, <<"w", "h", "y">>, <<" ", "h", "o", "w", " ">> }

\* the outcomes of POST /ask_question; ok = FALSE is a rejected fetch, a
\* status that is not OK or a body that is not JSON
AskResponses ==
    { [ok |-> FALSE, status |-> "", answer |-> "", confidence |-> <<>>] }
    \cup { [ok |-> TRUE, status |-> "success", answer |-> "an answer",
            confidence |-> c] :
              c \in { <<>>, <<0>>, <<50>>, <<70>>, <<71>>, <<-20>> } }
    \cup { [ok |-> TRUE, status |-> "error", answer |-> a,
            confidence |-> <<>>] : a \in {"", "No context available"} }

\* the user edits the textarea; a disabled textarea takes no input
TypeInput ==
    /\ ~inputDisabled
    /\ \E v \in InputTexts : inputValue' = v
    /\ UNCHANGED <<messages, inputDisabled, sendDisabled, typingIndicator,
                   questionCount, statusPending, askPending, asked>>
    /\ UNCHANGED <<notesVars, parseVars>>

\* sendButton "click" (qna.js:45); a disabled button fires no click
ClickSend ==
    /\ ~sendDisabled
    /\ trim(inputValue) # <<>> => asked < MaxQuestions
    /\ ApplyQ(sendMessage(Q))
    /\ asked' = IF trim(inputValue) # <<>> THEN asked + 1 ELSE asked
    /\ UNCHANGED <<notesVars, parseVars>>

\* Enter in the textarea (qna.js:48-53); a disabled textarea gets no keys
PressEnter ==
    /\ ~inputDisabled
    /\ trim(inputValue) # <<>> => asked < MaxQuestions
    /\ ApplyQ(sendMessage(Q))
    /\ asked' = IF trim(inputValue) # <<>> THEN asked + 1 ELSE asked
    /\ UNCHANGED <<notesVars, parseVars>>

\* the /ask_question request settles: sendMessage runs to its end
AskDelivers(response) ==
    /\ askPending > 0
    /\ ApplyQ(sendResume([Q EXCEPT !.askPending = @ - 1], response))
    /\ UNCHANGED asked
    /\ UNCHANGED <<notesVars, parseVars>>

AskResponse == \E response \in AskResponses : AskDelivers(response)

\* the /qna_status request settles: init runs to its end
StatusResponse ==
    /\ statusPending > 0
    /\ \E ready \in BOOLEAN :
         ApplyQ(initResume([Q EXCEPT !.statusPending = @ - 1], ready))
    /\ UNCHANGED asked
    /\ UNCHANGED <<notesVars, parseVars>>

---------------------------------------------------------------------------
(* Initial states and specifications *)

\* the closure's variables as declared (notes.js:33-37), no panel styled,
\* nothing in flight
NotesIdle ==
    /\ loadingState = "" /\ contentPlaceholder = ""
    /\ notesResult = "" /\ errorState = ""
    /\ errorMessage = <<>>
    /\ currentNotes = <<>> /\ structuredNotes = <<>> /\ retryCount = 0
    /\ sectionsCount = 0 /\ totalKeyPoints = 0
    /\ checkTimers = 0 /\ genPending = 0 /\ genTimers = 0
    /\ clicks = 0 /\ genProcessing = 0 /\ checkProcessing = 0
    /\ artifacts = 0 /\ copyPending = 0

\* after initPage (notes.js:41-50): checkForExistingNotes has issued its
\* fetch and the listeners are attached
NotesInit == NotesIdle /\ checkPending = 1

\* the constructor's fields (qna.js:3-8), the controls as the page has
\* them, nothing in flight
QnaIdle ==
    /\ messages = <<>> /\ inputValue = <<>> /\ inputDisabled = FALSE
    /\ sendDisabled = FALSE /\ typingIndicator = "" /\ questionCount = 0
    /\ askPending = 0 /\ asked = 0

Init == NotesInit /\ QnaIdle /\ statusPending = 0 /\ ParseIdle

Next ==
    \/ ClickGenerate
    \/ ClickRetry
    \/ ClickRefresh
    \/ GenTimerFire
    \/ GenResponse
    \/ CheckTimerFire
    \/ CheckResponse
    \/ ClickDownload
    \/ ClickCopy
    \/ CopyResponse
    \/ ClickPrint
    \/ ClickExportPdf
    \/ ClickShare

Spec == Init /\ [][Next]_vars

\* timers fire and requests settle (by a response or by a failure)
FairSpec ==
    /\ Spec
    /\ WF_vars(GenTimerFire)
    /\ WF_vars(GenResponse)
    /\ WF_vars(CheckTimerFire)
    /\ WF_vars(CheckResponse)

ParseInit ==
    /\ NotesIdle /\ checkPending = 0 /\ QnaIdle /\ statusPending = 0
    /\ notes \in Inputs /\ lines = <<>> /\ pos = 0
    /\ parser = ParserInit /\ result = <<>> /\ pc = "call"
    /\ exported = <<>>

ParseNext ==
    \/ ParseCall
    \/ ParseLine
    \/ ParseReturn
    \/ FormatResult

ParseSpec == ParseInit /\ [][ParseNext]_vars

\* after the constructor (qna.js:10-17): the listeners are attached and
\* init awaits checkSystemStatus
QnaInit ==
    /\ NotesIdle /\ checkPending = 0 /\ ParseIdle
    /\ QnaIdle /\ statusPending = 1

QnaNext ==
    \/ TypeInput
    \/ ClickSend
    \/ PressEnter
    \/ AskResponse
    \/ StatusResponse

QnaSpec == QnaInit /\ [][QnaNext]_vars

\* a request that was issued settles (by a response or by a failure)
QnaFairSpec ==
    /\ QnaSpec
    /\ WF_vars(AskResponse)
    /\ WF_vars(StatusResponse)

---------------------------------------------------------------------------
(* Properties of the notes widget's poll chains                            *)

\* some panel other than the loading panel is shown
Interactive ==
    /\ loadingState # "block"
    /\ \/ contentPlaceholder = "block"
       \/ errorState = "block"
       \/ notesResult = "block"

InFlight == checkPending + checkTimers + genPending + genTimers

\* every poll so far was answered "processing": the page-load chain is
\* still polling (any other answer ends it)
CheckStillPolling == checkPending + checkTimers = 1

\* C1: when one click started handleGenerateNotes and every poll is
\* answered "processing", the step that delivers the 10th such answer
\* schedules no further poll and shows the error panel.
C1_RetryCap ==
    [][(clicks = 1 /\ CheckStillPolling
          /\ genProcessing = MAX_RETRIES - 1 /\ genProcessing' = MAX_RETRIES)
         => (genPending' = 0 /\ genTimers' = 0 /\ errorState' = "block")]_vars

\* C2: no poll chain, the page-load chain included, has a request or a
\* timer outstanding once it has received MAX_RETRIES "processing" answers.
C2_LoopsBounded ==
    /\ checkProcessing >= MAX_RETRIES => checkPending + checkTimers = 0
    /\ (clicks <= 1 /\ CheckStillPolling /\ genProcessing >= MAX_RETRIES)
         => genPending + genTimers = 0

\* C3: at most one /generate_notes request or retry timer is outstanding.
C3_OneChain == InFlight <= 1

\* C6: whenever the loading panel is shown, the widget eventually shows the
\* placeholder, the error panel or the result view (checked under FairSpec).
C6_ReturnsInteractive == [](loadingState = "block" => <>Interactive)

---------------------------------------------------------------------------
(* Properties of the chat widget                                           *)

IsUserMessage(m) == m.type = "user"
IsGreeting(m) == m.content \in { <<"welcome">>, <<"not ready">> }
IsReply(m) == ~IsUserMessage(m) /\ ~IsGreeting(m)

NumUser == Cardinality({i \in 1..Len(messages) : IsUserMessage(messages[i])})
NumReplies == Cardinality({i \in 1..Len(messages) : IsReply(messages[i])})

\* C4: at most one /ask_question request is pending, and the input and the
\* send button are both disabled in every state in which one is pending.
C4_OneOutstanding ==
    /\ askPending <= 1
    /\ askPending > 0 => (inputDisabled /\ sendDisabled)

\* a question is pending with both controls disabled, and the user still
\* has a question left to ask
C4_Witness ==
    askPending = 1 /\ inputDisabled /\ sendDisabled /\ asked < MaxQuestions

\* C5: the controls are disabled only while a request is pending, and
\* whenever they are enabled every question in the transcript has its reply
\* (answer or error message) in the transcript.
C5_ReenabledAfterReply ==
    /\ (inputDisabled \/ sendDisabled) => askPending > 0
    /\ (~inputDisabled /\ ~sendDisabled) => NumReplies = NumUser
    /\ askPending > 0 => NumReplies = NumUser - 1

\* the controls are enabled again after a failed round-trip, the error
\* message being the last message
C5_Witness ==
    /\ asked >= 1 /\ askPending = 0
    /\ ~inputDisabled /\ ~sendDisabled
    /\ messages # <<>>
    /\ messages[Len(messages)].content
         = <<"error", "Failed to get response. Please try again.">>

---------------------------------------------------------------------------
(* Properties of parseStructuredNotes (checked under ParseSpec)            *)

\* the Sections of the forward pass, the open one pushed
Parsed == pushLast(parser)

TheFallback ==
    <<[title |-> ContentNotesTitle, content |-> <<notes>>,
       subsections |-> <<>>]>>

IsSection(x) == {"title", "subsections"} \subseteq DOMAIN x
IsSynthesized(x) == "points" \in DOMAIN x

TrimmedLines(text) ==
    LET ls == splitLines(text) IN [i \in 1..Len(ls) |-> trim(ls[i])]

\* the input after blank lines are removed and each line is trimmed
TrimFiltered(text) == join(TrimmedLines(text), "\n")

\* no line is a "# title" line after trimming
NoSectionMarker(text) ==
    \A i \in 1..Len(TrimmedLines(text)) : ~matchSection(TrimmedLines(text)[i])

\* no line is a "# title" or a "## title" line after trimming
NoHeadingMarker(text) ==
    \A i \in 1..Len(TrimmedLines(text)) :
        /\ ~matchSection(TrimmedLines(text)[i])
        /\ ~matchSubsection(TrimmedLines(text)[i])

\* C7: the parser returns at least one Section for every input, and the
\* one-element fallback when the forward pass produced no Section.
C7_ParserTotal ==
    pc = "done" =>
        /\ Len(result) >= 1
        /\ \A i \in 1..Len(result) : IsSection(result[i])
        /\ Parsed = <<>> => result = TheFallback

\* a text with lines in it (headings, bullets or numbered lines among
\* them) from which the forward pass produced no Section
C7_Witness ==
    pc = "done" /\ Parsed = <<>> /\ Len(lines) >= 2 /\ Len(result) = 1

\* C8 as stated: without heading markers the single paragraph is the
\* trimmed-line-filtered input.
C8_TrimFilteredParagraph ==
    (pc = "done" /\ NoHeadingMarker(notes)) =>
        result = <<[title |-> ContentNotesTitle,
                    content |-> <<TrimFiltered(notes)>>,
                    subsections |-> <<>>]>>

\* C8 amended: without heading markers the result is one Section titled
\* "Content Notes" whose single paragraph is the raw input, blank lines and
\* surrounding whitespace kept.
C8_RawParagraph ==
    (pc = "done" /\ NoHeadingMarker(notes)) =>
        /\ Len(result) = 1
        /\ result[1].title = ContentNotesTitle
        /\ result[1].content = <<notes>>

\* an input without heading markers whose raw text differs from its
\* trimmed-line-filtered form
C8_Witness ==
    /\ pc = "done" /\ NoHeadingMarker(notes)
    /\ Len(lines) >= 1 /\ TrimFiltered(notes) # notes

\* C9: with no "# title" line anywhere the result is the one synthetic
\* Section "Content Notes", without subsections, whose content is the raw
\* input as one paragraph; "## title" lines, bullets and key points do not
\* change that.
C9_FallbackWithoutSections ==
    (pc = "done" /\ NoSectionMarker(notes)) => result = TheFallback

\* no "# title" line, yet a "## Key Points" heading whose numbered lines
\* filled the accumulator
C9_Witness ==
    pc = "done" /\ NoSectionMarker(notes) /\ parser.keyPoints # <<>>

Overviews ==
    {i \in 1..Len(Parsed) :
        includes(toLowerCase(Parsed[i].title), OverviewNeedle)}

\* the position (from 1) the synthesized Section must take
KeyPointsPlace == IF Overviews = {} THEN 2 ELSE Min(Overviews) + 1

RemoveAt(seq, k) == SubSeq(seq, 1, k - 1) \o SubSeq(seq, k + 1, Len(seq))

---------------------------------------------------------------------------
(* Properties of one forEach iteration (checked under ParseSpec)           *)

\* the iteration at hand reads lines[pos]
Stepping == pc = "forEach" /\ pos <= Len(lines) /\ pos' = pos + 1

\* the line the iteration at hand reads, trimmed
CurLine == trim(lines[pos])

\* the line the last iteration read, trimmed
PrevLine == trim(lines[pos - 1])

Stepped == pc = "forEach" /\ pos >= 2

\* the number of digits s starts with
RECURSIVE LeadingDigits(_)
LeadingDigits(s) ==
    IF s # <<>> /\ IsDigit(s[1]) THEN 1 + LeadingDigits(Tail(s)) ELSE 0

\* the number of whitespace characters s starts with
RECURSIVE LeadingSpaces(_)
LeadingSpaces(s) ==
    IF s # <<>> /\ IsSpace(s[1]) THEN 1 + LeadingSpaces(Tail(s)) ELSE 0

Drop(s, n) == SubSeq(s, n + 1, Len(s))

\* a numbered line without its numeral, its period and the whitespace
\* after the period
Unnumbered(line) ==
    LET afterDigits == Drop(line, LeadingDigits(line))
        afterPeriod == Drop(afterDigits, 1)
    IN  Drop(afterPeriod, LeadingSpaces(afterPeriod))

\* the points lists of the open Section's Subsections
OpenSubsectionPoints(st) ==
    IF st.currentSection = <<>> THEN <<>>
    ELSE [i \in 1..Len(st.currentSection[1].subsections)
            |-> st.currentSection[1].subsections[i].points]

OpenContent(st) == st.currentSection[1].content

\* the step adds paragraph p to the open Section and changes nothing else
AddsParagraph(p) ==
    parser' = [parser EXCEPT !.currentSection[1].content = Append(@, p)]

ContentKept == parser.currentSection # <<>> /\ Len(CurLine) > 5

\* C11 as stated: a numbered line read outside key-points mode is added to
\* no points list and not to the accumulator; with a Section open and more
\* than 5 characters it becomes a paragraph without its numbering,
\* otherwise it is dropped.
C11_NumberingLost ==
    [][(Stepping /\ matchNumbered(CurLine) /\ ~parser.inKeyPoints)
         => /\ parser'.keyPoints = parser.keyPoints
            /\ OpenSubsectionPoints(parser') = OpenSubsectionPoints(parser)
            /\ IF ContentKept THEN AddsParagraph(Unnumbered(CurLine))
                              ELSE parser' = parser]_vars

\* C11 amended: a numbered line read outside key-points mode is added to
\* no points list and not to the accumulator; with a Section open and more
\* than 5 characters it becomes a paragraph that is the whole trimmed
\* line, numeral and period kept; otherwise it is dropped.
C11_NumberedIsContent ==
    [][(Stepping /\ matchNumbered(CurLine) /\ ~parser.inKeyPoints)
         => /\ parser'.keyPoints = parser.keyPoints
            /\ OpenSubsectionPoints(parser') = OpenSubsectionPoints(parser)
            /\ IF ContentKept THEN AddsParagraph(CurLine)
                              ELSE parser' = parser]_vars

\* a numbered line was read outside key-points mode with a Subsection open
\* and is now the last paragraph of the open Section, numeral included
C11_Witness ==
    /\ Stepped /\ matchNumbered(PrevLine) /\ ~parser.inKeyPoints
    /\ parser.currentSubsection # 0
    /\ OpenContent(parser) # <<>>
    /\ OpenContent(parser)[Len(OpenContent(parser))] = PrevLine
    /\ Unnumbered(PrevLine) # PrevLine

\* the heading line names key points, in any case
NamesKeyPoints(line) == includes(toLowerCase(line), KeyPointsNeedle)

\* C12 as stated: a "## title" line read while no Section is open leaves
\* the whole parser state unchanged.
C12_NoOpWithoutSection ==
    [][(Stepping /\ matchSubsection(CurLine) /\ parser.currentSection = <<>>)
         => parser' = parser]_vars

\* C12 amended: a "## title" line read while no Section is open opens no
\* Subsection and leaves the open Section (none), the open Subsection
\* (none) and the result list unchanged, but it still sets the key-points
\* flag (on exactly when the title names key points) and empties the
\* accumulator when it turns the flag on; the numbered lines that follow
\* such a key-points heading are collected.
C12_OnlyModeChanges ==
    [][(Stepping /\ matchSubsection(CurLine) /\ parser.currentSection = <<>>)
         => /\ parser'.sections = parser.sections
            /\ parser'.currentSection = <<>>
            /\ parser'.currentSubsection = 0
            /\ parser'.inKeyPoints = NamesKeyPoints(CurLine)
            /\ parser'.keyPoints
                 = IF NamesKeyPoints(CurLine) THEN <<>> ELSE parser.keyPoints]_vars

\* no Section was ever opened, a "## Key Points" line was read, and a
\* numbered line after it sits in the accumulator
C12_Witness ==
    /\ Stepped /\ matchNumbered(PrevLine)
    /\ parser.currentSection = <<>> /\ parser.sections = <<>>
    /\ parser.inKeyPoints /\ parser.keyPoints # <<>>

---------------------------------------------------------------------------
(* Properties of formatNotesForDownload (checked under ParseSpec)          *)

\* the concatenation of the texts of a sequence
RECURSIVE Concat(_)
Concat(texts) == IF texts = <<>> THEN <<>> ELSE texts[1] \o Concat(Tail(texts))

\* a line of the export: its text and the newline that ends it
TextLine(text) == text \o <<"\n">>
BlankLine == <<"\n">>

\* "<n>. <text>" after an indentation
IndexedLine(indent, n, text) ==
    TextLine(repeat(" ", indent) \o numberToString(n) \o <<".", " ">> \o text)

\* the marks a bulleted line may start with
BulletMarks == { <<"U+2022">>, <<"-">>, <<"*">> }

ParagraphBlocks(section) ==
    IF "content" \in DOMAIN section
    THEN Concat([i \in 1..Len(section.content)
                   |-> TextLine(section.content[i]) \o BlankLine])
    ELSE <<>>

KeyPointsBlock(section) ==
    IF "points" \in DOMAIN section
    THEN TextLine(KeyPointsLabel)
           \o Concat([i \in 1..Len(section.points)
                        |-> IndexedLine(2, i, section.points[i])])
           \o BlankLine
    ELSE <<>>

SubsectionBlock(subsection, j, mark) ==
    IndexedLine(3, j, subsection.title)
      \o Concat([i \in 1..Len(subsection.points)
                   |-> TextLine(repeat(" ", 6) \o mark \o <<" ">>
                                  \o subsection.points[i])])
      \o BlankLine

SectionBlock(section, n, mark) ==
    IndexedLine(0, n, section.title)
      \o TextLine([i \in 1..(Len(section.title) + 4) |-> "="])
      \o BlankLine
      \o ParagraphBlocks(section)
      \o KeyPointsBlock(section)
      \o Concat([j \in 1..Len(section.subsections)
                   |-> SubsectionBlock(section.subsections[j], j, mark)])
      \o BlankLine

\* the export of a tree, its bulleted lines starting with mark
Layout(tree, mark) ==
    TextLine(VideoNotesHeader) \o BlankLine
      \o Concat([n \in 1..Len(tree) |-> SectionBlock(tree[n], n, mark)])

HasSubsectionPoint(tree) ==
    \E n \in 1..Len(tree) : \E j \in 1..Len(tree[n].subsections) :
        tree[n].subsections[j].points # <<>>

\* C13: the export is the header "VIDEO NOTES", then for each Section in
\* list order its index line "<n>. <title>" (n from 1), an underline of
\* len(title)+4 "=", each content paragraph followed by a blank line, a
\* "Key Points:" block numbered from 1 exactly when the Section has a
\* points field, per Subsection an indexed sub-heading (from 1) and one
\* bulleted line per point, and a blank line closing the Section.
C13_ExportLayout ==
    pc = "formatted" => \E mark \in BulletMarks : exported = Layout(result, mark)

\* the same layout with the text of notes.js:427 in place of the bullet
ExportLayoutAsWritten ==
    pc = "formatted" => exported = Layout(result, BulletText)

---------------------------------------------------------------------------
(* Properties of the notes widget's tree and statistics (checked under     *)
(* Spec)                                                                   *)

\* the responses that carry note text
SuccessResponses ==
    {data \in Responses :
        data.ok /\ data.status = "success" /\ data.notes # <<>>}

\* a poll was answered in this step
Answered ==
    genPending' = genPending - 1 \/ checkPending' = checkPending - 1

\* the step is the processing of this response, by either poll chain
Delivers(data) == Answered /\ (GenDelivers(data) \/ CheckDelivers(data))

\* a poll was answered with note text: of the branches of the two poll
\* handlers only the success branch leaves the result panel shown
NotesDelivered == Answered /\ notesResult' = "block"

\* NotesDelivered singles out the steps that process a success response
NotesDeliveredIsSuccess ==
    [][NotesDelivered <=> \E data \in SuccessResponses : Delivers(data)]_vars

RECURSIVE SumSeq(_)
SumSeq(ns) == IF ns = <<>> THEN 0 ELSE ns[1] + SumSeq(Tail(ns))

OwnPoints(section) ==
    IF "points" \in DOMAIN section THEN Len(section.points) ELSE 0

SubsectionPoints(section) ==
    SumSeq([j \in 1..Len(section.subsections)
              |-> Len(section.subsections[j].points)])

\* the points of a tree: those of its Sections and of their Subsections
PointsIn(tree) ==
    SumSeq([n \in 1..Len(tree) |-> OwnPoints(tree[n])])
      + SumSeq([n \in 1..Len(tree) |-> SubsectionPoints(tree[n])])

\* the items of the synthesized Sections of a tree
Collected(tree) ==
    UNION { {tree[n].points[i] : i \in 1..Len(tree[n].points)} :
              n \in {k \in 1..Len(tree) : IsSynthesized(tree[k])} }

\* no collected item is also a point of a Subsection titled key points
CollectedOnce(tree) ==
    \A n \in 1..Len(tree) : \A j \in 1..Len(tree[n].subsections) :
        LET sub == tree[n].subsections[j]
        IN  NamesKeyPoints(sub.title)
              => \A i \in 1..Len(sub.points) : sub.points[i] \notin Collected(tree)

\* C14: right after a success response is processed the section count is
\* the number of Sections of the tree (the synthesized one included) and
\* the point count is the sum of every Section's own points and every
\* Subsection's points, the collected key points counted once.
C14_DerivedStats ==
    [][NotesDelivered
         => /\ sectionsCount' = Len(structuredNotes')
            /\ totalKeyPoints' = PointsIn(structuredNotes')
            /\ CollectedOnce(structuredNotes')]_vars

\* the tree on display has a synthesized Section and a Subsection with a
\* point, and the statistics count both
C14_Witness ==
    /\ notesResult = "block" /\ Collected(structuredNotes) # {}
    /\ \E n \in 1..Len(structuredNotes) : SubsectionPoints(structuredNotes[n]) > 0
    /\ sectionsCount = Len(structuredNotes)
    /\ totalKeyPoints = PointsIn(structuredNotes)

\* the tree of each note text the backend may send
TreeOf == [text \in NotesTexts |-> parseStructuredNotes(text)]

\* the widget's own state: its panels, notes, tree, counters and polls
WidgetState ==
    <<loadingState, contentPlaceholder, notesResult, errorState, errorMessage,
      currentNotes, structuredNotes, retryCount, sectionsCount, totalKeyPoints,
      checkPending, checkTimers, genPending, genTimers>>

NotesEmpty == currentNotes = <<>> /\ structuredNotes = <<>>

\* the refresh button was clicked while notes were shown, with this
\* answer to the confirmation
RefreshAnswered(confirmed) ==
    currentNotes # <<>> /\ clicks' = clicks + 1 /\ Refresh(confirmed)

\* C15: each processed success response makes the tree the parse of its
\* text, whatever the tree was; a confirmed refresh empties the notes text
\* and the tree, and they stay empty until a success response is
\* processed; a declined refresh changes nothing and issues no request.
C15_TreeLifecycle ==
    [][/\ NotesDelivered
            => currentNotes' \in NotesTexts
                 /\ structuredNotes' = TreeOf[currentNotes']
       /\ RefreshAnswered(TRUE) => NotesEmpty'
       /\ RefreshAnswered(FALSE) => UNCHANGED WidgetState
       /\ (NotesEmpty /\ ~NotesEmpty') => NotesDelivered]_vars

\* a tree was shown (its statistics remain), the refresh was confirmed,
\* and notes and tree are empty while the new poll is in flight
C15_Witness ==
    /\ NotesEmpty /\ sectionsCount > 0 /\ notesResult = "none"
    /\ genPending > 0 /\ clicks > 0

---------------------------------------------------------------------------
(* Properties of the rendered messages (checked under QnaSpec)             *)

LastMessage(ms) == ms[Len(ms)]

\* the badge the tiers give a confidence, in hundredths; <<>> is absent
Tier(confidence) ==
    CHOOSE badge \in {"high", "general", ""} :
        /\ badge = "high" <=> (confidence # <<>> /\ confidence[1] > 70)
        /\ badge = "general"
             <=> (confidence # <<>> /\ 0 < confidence[1] /\ confidence[1] <= 70)
        /\ badge = "" <=> (confidence = <<>> \/ confidence[1] <= 0)

IsAnswer(response) == response.ok /\ response.status = "success"

\* C16: a rendered answer carries the "high confidence" badge iff its
\* confidence is above 0.7, the "general answer" badge iff it is above 0
\* and at most 0.7, and no badge iff it is 0, negative or absent; user
\* messages and system messages never carry a badge.
C16_BadgeTiers ==
    [][/\ \A response \in AskResponses :
            AskDelivers(response)
              => /\ Len(messages') = Len(messages) + 1
                 /\ LastMessage(messages').badge
                      = IF IsAnswer(response) THEN Tier(response.confidence)
                        ELSE ""
       /\ \A i \in 1..Len(messages') :
            (messages'[i].type = "user" \/ messages'[i].sender = "System")
              => messages'[i].badge = ""]_vars

\* two answers were rendered, one with the "general answer" badge and one
\* with the "high confidence" badge, after user messages without a badge
C16_Witness ==
    /\ \E i \in 1..Len(messages) : messages[i].badge = "general"
    /\ \E i \in 1..Len(messages) : messages[i].badge = "high"
    /\ \E i \in 1..Len(messages) :
         messages[i].type = "user" /\ messages[i].badge = ""

---------------------------------------------------------------------------
(* Properties of the notes widget's error reporting (checked under Spec)   *)

\* the explicit error payloads of /generate_notes
ErrorResponses == {data \in Responses : data.ok /\ data.status = "error"}

\* the payload's message, else its error field, else the default message
PayloadText(data) ==
    IF data.message # "" THEN data.message
    ELSE IF data.error # "" THEN data.error
    ELSE "Notes generation failed"

\* C17 as stated: an error payload answered to any poll, of the page-load
\* check or of a click, shows the error panel with the payload's message
\* verbatim, or the default message.
C17_ErrorVerbatim ==
    [][\A data \in ErrorResponses :
         Delivers(data)
           => errorState' = "block" /\ errorMessage' = <<PayloadText(data)>>]_vars

\* C17 amended: an error payload answered to a poll of handleGenerateNotes
\* (click or retry timer) shows the error panel with the text "Failed to
\* generate notes: " followed by the payload's message, else its error
\* field, else the default message; answered to the page-load check it
\* shows the placeholder, hides the error panel and writes no error text.
C17_ErrorSurfaced ==
    [][\A data \in ErrorResponses :
         /\ (Answered /\ GenDelivers(data))
              => /\ errorState' = "block"
                 /\ errorMessage' = <<"Failed to generate notes: ", PayloadText(data)>>
         /\ (Answered /\ CheckDelivers(data))
              => /\ contentPlaceholder' = "block" /\ errorState' = "none"
                 /\ errorMessage' = errorMessage]_vars

\* the click chain was answered with an error payload that has only an
\* error field, and the panel shows it behind the prefix
C17_Witness ==
    /\ errorState = "block" /\ loadingState = "none"
    /\ errorMessage = <<"Failed to generate notes: ", "Backend failure">>

---------------------------------------------------------------------------
(* Properties of the key-points mode (checked under ParseSpec)             *)

\* the forward pass has started; lines 1 .. pos-1 have been read
Reading == pc \in {"forEach", "done", "formatted"}

\* the lines read so far, trimmed
ReadLines == [i \in 1..(pos - 1) |-> trim(lines[i])]

\* the i-th of them
ReadLine(i) == trim(lines[i])

IsHeading(line) == matchSection(line) \/ matchSubsection(line)

\* the places of the heading lines read so far
Headings == {i \in 1..(pos - 1) : IsHeading(ReadLine(i))}

\* those of the heading places H whose line is a "## title" line that
\* names key points
KeyPointsAmong(H) ==
    {i \in H : matchSubsection(ReadLine(i)) /\ NamesKeyPoints(ReadLine(i))}

\* the places of the "## title" lines read so far that name key points
KeyPointsHeadings == KeyPointsAmong(Headings)

\* the numbered lines among ReadLine(from .. to), without their numerals
NumberedItems(from, to) ==
    LET numbered == SelectSeq(SubSeq(ReadLines, from, to), matchNumbered)
    IN  [i \in 1..Len(numbered) |-> Unnumbered(numbered[i])]

\* the numbered items between the last key-points heading and the heading
\* after it (or the place the pass has reached)
ItemsAfterLast(H, K) ==
    IF K = {} THEN <<>>
    ELSE LET last == Max(K)
             later == {i \in H : i > last}
         IN  NumberedItems(last + 1,
                           IF later = {} THEN pos - 1 ELSE Min(later) - 1)

ItemsOfLastKeyPointsHeading == ItemsAfterLast(Headings, KeyPointsHeadings)

\* C18: after any prefix of lines key-points mode is on exactly when the
\* most recent heading line is a "## title" line whose title contains
\* "key points" in any case; every entry into the mode empties the
\* accumulator, so it holds, and the synthesized Section carries, only the
\* numbered items that follow the last key-points heading.
C18_KeyPointsMode ==
    Reading =>
        LET H == Headings
            K == KeyPointsAmong(H)
            items == ItemsAfterLast(H, K)
        IN  /\ parser.inKeyPoints <=> (H # {} /\ Max(H) \in K)
            /\ parser.keyPoints = items
            /\ pc = "done" =>
                 \A n \in 1..Len(result) :
                     IsSynthesized(result[n]) => result[n].points = items

\* two key-points headings were read with a numbered item after the first:
\* the second entry into the mode emptied the accumulator
C18_Witness ==
    /\ Reading /\ parser.inKeyPoints /\ parser.keyPoints = <<>>
    /\ Cardinality(KeyPointsHeadings) >= 2
    /\ \E i \in 1..(pos - 1) :
         /\ matchNumbered(ReadLine(i))
         /\ \E h \in KeyPointsHeadings : h < i

\* C19: a numbered line read in key-points mode is appended, without its
\* numeral, period and the whitespace after it, to the end of the
\* accumulator and changes nothing else: no Subsection's points and no
\* Section's content, whatever its length.
C19_OnlyAccumulator ==
    [][(Stepping /\ matchNumbered(CurLine) /\ parser.inKeyPoints)
         => parser' = [parser EXCEPT
                         !.keyPoints = Append(@, Unnumbered(CurLine))]]_vars

\* under an open "## Key Points" Subsection a long and a short numbered
\* line were read: both are in the accumulator, in their order, and the
\* Subsection has no point
C19_Witness ==
    /\ Stepped /\ parser.inKeyPoints /\ parser.currentSubsection # 0
    /\ Len(parser.keyPoints) = 2
    /\ Len(parser.keyPoints[1]) > 1 /\ Len(parser.keyPoints[2]) = 1
    /\ OpenSubsectionPoints(parser)[parser.currentSubsection] = <<>>
    /\ OpenContent(parser) = <<>>

\* a bullet line without its dash and the whitespace after it
Unbulleted(line) == Drop(Drop(line, 1), LeadingSpaces(Drop(line, 1)))

\* the step adds point p to the open Subsection and changes nothing else
AddsPoint(p) ==
    parser' = [parser EXCEPT
                 !.currentSection[1].subsections[parser.currentSubsection].points
                     = Append(@, p)]

\* every line of the input is a bullet, and there is one
OnlyBullets ==
    /\ lines # <<>>
    /\ \A i \in 1..Len(lines) : matchBullet(trim(lines[i]))

\* C20: a bullet line is appended, without its dash, to the points of the
\* open Subsection if there is one, else to the content of the open
\* Section if there is one, else it is dropped and opens no Section,
\* whatever its length; a "# title" line closes the open Subsection; an
\* input of bullets only yields the fallback.
C20_BulletRouting ==
    /\ [][/\ (Stepping /\ matchBullet(CurLine))
               => IF parser.currentSubsection # 0
                  THEN AddsPoint(Unbulleted(CurLine))
                  ELSE IF parser.currentSection # <<>>
                  THEN AddsParagraph(Unbulleted(CurLine))
                  ELSE parser' = parser
          /\ (Stepping /\ matchSection(CurLine))
               => /\ parser'.currentSubsection = 0
                  /\ OpenContent(parser') = <<>>
                  /\ OpenSubsectionPoints(parser') = <<>>]_vars
    /\ []((pc = "done" /\ OnlyBullets) => result = TheFallback)

\* a Section with a Subsection was closed by a "# title" line and the
\* bullet read after it, of fewer than six characters, is the content of
\* the new Section
C20_Witness ==
    /\ Stepped /\ matchBullet(PrevLine) /\ Len(PrevLine) <= 5
    /\ parser.currentSection # <<>> /\ parser.currentSubsection = 0
    /\ OpenContent(parser) = <<Unbulleted(PrevLine)>>
    /\ parser.sections # <<>>
    /\ parser.sections[Len(parser.sections)].subsections # <<>>

---------------------------------------------------------------------------
(* Properties of the content branch and of document order (checked under   *)
(* ParseSpec)                                                              *)

\* a line that is no heading, no bullet and no numbered line read in
\* key-points mode
IsOtherLine(line, st) ==
    /\ ~IsHeading(line) /\ ~matchBullet(line)
    /\ ~(matchNumbered(line) /\ st.inKeyPoints)

StartsWithHash(line) == line # <<>> /\ line[1] = "#"

\* the texts the bullets of the input contribute
BulletTexts ==
    {Unbulleted(trim(lines[i])) :
        i \in {k \in 1..Len(lines) : matchBullet(trim(lines[k]))}}

\* every paragraph of a parsed Section is a bullet's text or has at least
\* six characters
ParagraphsFiltered ==
    (pc = "done" /\ Parsed # <<>>) =>
        \A n \in 1..Len(Parsed) : \A i \in 1..Len(Parsed[n].content) :
            \/ Parsed[n].content[i] \in BulletTexts
            \/ Len(Parsed[n].content[i]) >= 6

\* C21 as stated: a line that is no heading, no bullet and no numbered line
\* in key-points mode becomes a paragraph of the open Section (and changes
\* no Subsection) iff a Section is open and the trimmed line has more than
\* 5 characters, and is dropped otherwise; so every paragraph that is not a
\* bullet's text has at least 6 characters.
C21_ContentFilter ==
    /\ [][(Stepping /\ IsOtherLine(CurLine, parser))
            => IF ContentKept THEN AddsParagraph(CurLine)
                              ELSE parser' = parser]_vars
    /\ []ParagraphsFiltered

\* C21 amended: such a line becomes a paragraph of the open Section (and
\* changes no Subsection) iff a Section is open, the trimmed line has more
\* than 5 characters and it does not start with "#"; a line that starts
\* with "#" without being a heading is dropped whatever its length; so
\* every paragraph that is not a bullet's text has at least 6 characters.
C21_FilterSkipsHashLines ==
    /\ [][(Stepping /\ IsOtherLine(CurLine, parser))
            => IF ContentKept /\ ~StartsWithHash(CurLine)
               THEN AddsParagraph(CurLine)
               ELSE parser' = parser]_vars
    /\ []ParagraphsFiltered

\* with a Section open, a paragraph was kept and then a line of more than
\* 5 characters that starts with "#" and is no heading was read and dropped
C21_Witness ==
    /\ Stepped /\ StartsWithHash(PrevLine) /\ ~IsHeading(PrevLine)
    /\ Len(PrevLine) > 5
    /\ parser.currentSection # <<>> /\ Len(OpenContent(parser)) = 1
    /\ Len(OpenContent(parser)[1]) >= 6

\* the elements of a finite set of numbers in ascending order
RECURSIVE Ascending(_)
Ascending(S) ==
    IF S = {} THEN <<>> ELSE <<Min(S)>> \o Ascending(S \ {Min(S)})

\* the "# title" lines read so far, and the line after the last line read
SectionLines == {i \in 1..(pos - 1) : matchSection(ReadLine(i))}
EndOfRead == pos

\* the first "# title" line after line i, or the end of what was read
NextSectionLine(i) ==
    LET later == {j \in SectionLines : j > i}
    IN  IF later = {} THEN EndOfRead ELSE Min(later)

\* the first heading after line i, or the end of what was read
NextHeading(i) ==
    LET later == {j \in Headings : j > i}
    IN  IF later = {} THEN EndOfRead ELSE Min(later)

\* line i follows a "## title" line naming the key points, with no heading
\* in between
InKeyPointsAt(i) ==
    LET before == {h \in Headings : h < i}
    IN  /\ before # {}
        /\ matchSubsection(ReadLine(Max(before)))
        /\ NamesKeyPoints(ReadLine(Max(before)))

\* line i, between the "# title" line s and the next one, lands in the
\* content of that Section: a bullet ahead of the first "## title" line,
\* or a line the content filter keeps
IsParagraphLine(i, s) ==
    LET line == ReadLine(i)
    IN  /\ ~IsHeading(line)
        /\ ~(matchNumbered(line) /\ InKeyPointsAt(i))
        /\ IF matchBullet(line)
           THEN \A h \in (s + 1)..(i - 1) : ~matchSubsection(ReadLine(h))
           ELSE Len(line) > 5 /\ ~StartsWithHash(line)

ParagraphOf(line) == IF matchBullet(line) THEN Unbulleted(line) ELSE line

\* the Subsection a "## title" line h announces: the bullets up to the
\* next heading, in the order of their lines
SubsectionAt(h) ==
    LET at == Ascending({i \in (h + 1)..(NextHeading(h) - 1) :
                            matchBullet(ReadLine(i))})
    IN  [title |-> Drop(ReadLine(h), 2 + LeadingSpaces(Drop(ReadLine(h), 2))),
         points |-> [n \in 1..Len(at) |-> Unbulleted(ReadLine(at[n]))]]

\* the Section a "# title" line s announces
SectionAt(s) ==
    LET e == NextSectionLine(s)
        subs == Ascending({h \in (s + 1)..(e - 1) :
                              matchSubsection(ReadLine(h))})
        paras == Ascending({i \in (s + 1)..(e - 1) : IsParagraphLine(i, s)})
    IN  [title |-> Drop(ReadLine(s), 1 + LeadingSpaces(Drop(ReadLine(s), 1))),
         content |-> [n \in 1..Len(paras) |-> ParagraphOf(ReadLine(paras[n]))],
         subsections |-> [n \in 1..Len(subs) |-> SubsectionAt(subs[n])]]

\* the Sections of the lines read so far, in document order
InDocumentOrder ==
    LET at == Ascending(SectionLines)
    IN  [n \in 1..Len(at) |-> SectionAt(at[n])]

\* C22: document order is preserved.  At the end of the input the Sections
\* of the forward pass (the open one pushed) are one per "# title" line in
\* the order of those lines, none lost and none twice, each with exactly
\* the "## title" lines up to the next "# title" line as its subsections
\* in order, and content and points in the order of their lines; the
\* result returned is those Sections with at most the synthesized Key
\* Points Section added.
C22_DocumentOrder ==
    pc = "done" =>
        /\ Parsed = InDocumentOrder
        /\ SectionLines # {} =>
              SelectSeq(result, LAMBDA x : ~IsSynthesized(x)) = InDocumentOrder

\* two "# title" lines gave two Sections, the first pushed when the second
\* arrived, with a Subsection that holds a point
C22_Witness ==
    /\ pc = "done" /\ Len(result) = 2 /\ Cardinality(SectionLines) = 2
    /\ Len(result[1].subsections) = 1
    /\ Len(result[1].subsections[1].points) = 1

---------------------------------------------------------------------------
(* Properties of the transcript (checked under QnaSpec and QnaFairSpec)    *)

IsPrefixOf(a, b) == Len(a) <= Len(b) /\ SubSeq(b, 1, Len(a)) = a

\* the transcript without the greeting
Conversation == SelectSeq(messages, LAMBDA m : ~IsGreeting(m))

\* the step accepts a question: it issues the /ask_question request
Submits == askPending' = askPending + 1

\* the step settles the /ask_question request
Settles == askPending' = askPending - 1

\* the reply the transcript must show for a settled request
ExpectedReply(response) ==
    IF response.ok /\ response.status = "success"
    THEN [sender |-> "AI Assistant", content |-> <<response.answer>>]
    ELSE [sender |-> "System",
          content |-> <<"error",
                        IF ~response.ok
                        THEN "Failed to get response. Please try again."
                        ELSE IF response.answer # "" THEN response.answer
                        ELSE "Sorry, I encountered an error.">>]

\* questions and replies alternate, a question first, and the last
\* question is without reply exactly while its request is pending
RoundTripsOrdered ==
    /\ \A k \in 1..Len(Conversation) :
           IsUserMessage(Conversation[k]) <=> k % 2 = 1
    /\ Len(Conversation) % 2 = askPending

\* C23: the transcript only grows at its end; the step that issues an
\* /ask_question request appends the user's message; the step that settles
\* it appends exactly one reply, the AI answer for a success payload and a
\* system error message for an error payload or a failure; questions and
\* replies alternate, so the reply precedes any later user message; and a
\* pending question gets its reply once the request settles.
C23_RoundTrips ==
    /\ [][/\ IsPrefixOf(messages, messages')
          /\ Submits =>
               /\ Len(messages') = Len(messages) + 1
               /\ IsUserMessage(messages'[Len(messages')])
               /\ messages'[Len(messages')].content = trim(inputValue)
          /\ Settles =>
               /\ Len(messages') = Len(messages) + 1
               /\ IsReply(messages'[Len(messages')])
          /\ \A response \in AskResponses :
               AskDelivers(response) =>
                 /\ messages'[Len(messages')].sender
                      = ExpectedReply(response).sender
                 /\ messages'[Len(messages')].content
                      = ExpectedReply(response).content]_vars
    /\ []RoundTripsOrdered
    /\ [](askPending > 0 => <>(askPending = 0))

\* two round trips, the first ended by a failure and the second by an
\* answer, the greeting having arrived between them
C23_Witness ==
    /\ Len(messages) = 5 /\ askPending = 0
    /\ IsUserMessage(messages[1]) /\ messages[2].sender = "System"
    /\ IsGreeting(messages[3])
    /\ IsUserMessage(messages[4]) /\ messages[5].sender = "AI Assistant"

\* C24: in every state with a non-empty transcript the first message is the
\* greeting init produces after the /qna_status check (the welcome or the
\* not-ready message), however the status response and the user's
\* submissions interleave.
C24_GreetingFirst == messages # <<>> => IsGreeting(messages[1])

---------------------------------------------------------------------------
(* Properties of the panels and of the export actions (checked under Spec) *)

\* the panels whose style.display is "block"
VisiblePanels ==
    {p \in {"loading", "placeholder", "result", "error"} :
        \/ p = "loading" /\ loadingState = "block"
        \/ p = "placeholder" /\ contentPlaceholder = "block"
        \/ p = "result" /\ notesResult = "block"
        \/ p = "error" /\ errorState = "block"}

\* C25: in every reachable state at most one of the four panels (loading,
\* placeholder, result, error) is visible, however the page-load poll
\* chain, the click-started chains, the export actions and the backend
\* responses interleave.
C25_PanelExclusivity == Cardinality(VisiblePanels) <= 1

\* what formatNotesForDownload gives for the tree of each notes text
FormattedOf == [t \in NotesTexts |-> formatNotesForDownload(TreeOf[t])]

\* the step is a download or a copy that passed its notes-present guard
FormatsNotes == (ClickDownload \/ ClickCopy) /\ currentNotes # <<>>

\* C26: in every reachable state the notes text is non-empty iff the tree
\* is non-empty, and when both are non-empty the tree is the parse of the
\* text; so an export that passes its notes-present guard formats a
\* non-empty tree that belongs to the current text.
C26_TextAndTreeAgree ==
    /\ [](currentNotes = <<>> <=> structuredNotes = <<>>)
    /\ [](currentNotes # <<>> => structuredNotes = TreeOf[currentNotes])
    /\ [][FormatsNotes => /\ structuredNotes # <<>>
                          /\ exported' = FormattedOf[currentNotes]]_vars

\* notes are held, one artifact was produced, and the text last exported
\* is the formatted tree of the notes held
C26_Witness ==
    /\ currentNotes # <<>> /\ clicks = MaxClicks
    /\ exported = FormattedOf[currentNotes]
    /\ artifacts = 1

\* the step is a download, copy, print or share invoked with no notes held
ExportsNothing ==
    /\ currentNotes = <<>>
    /\ ClickDownload \/ ClickCopy \/ ClickPrint \/ ClickShare

NoNotesMessages ==
    { <<"No notes available to download">>, <<"No notes available to copy">>,
      <<"No notes available to print">>, <<"No notes available to share">> }

\* C27: download, copy, print and share invoked while no notes are held
\* produce no artifact and start no clipboard write, show the error panel
\* with their "No notes available" message, leave the notes text and the
\* tree unchanged and the retry counter of an idle widget unchanged (it is
\* 0 afterwards in every case), and issue no backend request and no timer.
C27_ExportGuard ==
    [][ExportsNothing =>
          /\ artifacts' = artifacts /\ copyPending' = copyPending
          /\ exported' = exported
          /\ errorState' = "block" /\ errorMessage' \in NoNotesMessages
          /\ currentNotes' = currentNotes
          /\ structuredNotes' = structuredNotes
          /\ retryCount' = 0
          /\ InFlight = 0 => retryCount' = retryCount
          /\ <<checkPending, checkTimers, genPending, genTimers>>'
               = <<checkPending, checkTimers, genPending, genTimers>>]_vars

\* print was invoked on the idle widget after the page-load check found no
\* notes: the error panel shows its message, nothing was produced
C27_Witness ==
    /\ InFlight = 0 /\ currentNotes = <<>> /\ clicks = 1
    /\ errorState = "block"
    /\ errorMessage = <<"No notes available to print">>
    /\ artifacts = 0 /\ copyPending = 0

---------------------------------------------------------------------------
(* Properties of sendMessage and of the question counter (checked under    *)
(* QnaSpec)                                                                *)

\* the step runs sendMessage on an empty or whitespace-only question
SendsBlank == trim(inputValue) = <<>> /\ (ClickSend \/ PressEnter)

\* C28: sendMessage on an empty or whitespace-only question appends
\* nothing to the transcript, issues no /ask_question request, and leaves
\* the question counter, the typing indicator and the enabled state of the
\* input and of the send button unchanged (the text in the input stays).
C28_BlankIsNoOp ==
    [][SendsBlank =>
          /\ messages' = messages
          /\ askPending' = askPending
          /\ questionCount' = questionCount
          /\ typingIndicator' = typingIndicator
          /\ inputDisabled' = inputDisabled /\ sendDisabled' = sendDisabled
          /\ inputValue' = inputValue]_vars

\* after one answered question the input holds a blank and the controls
\* are enabled: sending now runs sendMessage on a whitespace-only question
C28_Witness ==
    /\ inputValue = <<" ">> /\ ~inputDisabled /\ ~sendDisabled
    /\ questionCount = 1 /\ typingIndicator = "none" /\ askPending = 0

\* the AI answers in the transcript: the replies the assistant sent
NumAnswers ==
    Cardinality({i \in 1..Len(messages) :
                    IsReply(messages[i]) /\ messages[i].sender = "AI Assistant"})

\* the outcomes of /ask_question that are no success payload
UnansweredResponses ==
    {response \in AskResponses : ~(response.ok /\ response.status = "success")}

\* C29: in every reachable state the question counter is the number of AI
\* answers appended for success payloads and is at most the number of user
\* messages; no step decreases it, and a step that delivers an error
\* payload or a failure or that submits an empty question leaves it
\* unchanged.
C29_QuestionCounter ==
    /\ [](questionCount = NumAnswers /\ questionCount <= NumUser)
    /\ [][/\ questionCount' >= questionCount
          /\ (\E response \in UnansweredResponses : AskDelivers(response))
               => questionCount' = questionCount
          /\ SendsBlank => questionCount' = questionCount
          /\ questionCount' > questionCount
               => \E response \in AskResponses \ UnansweredResponses :
                     AskDelivers(response)]_vars

\* two questions, the first answered and counted, the second ended by an
\* error payload and not counted
C29_Witness ==
    /\ NumUser = 2 /\ askPending = 0 /\ questionCount = 1
    /\ messages[Len(messages)].sender = "System"
    /\ IsReply(messages[Len(messages)])

=============================================================================
